---- MODULE Spec2Model ----
(***************************************************************************)
(* A model of loam_iiif.iiif.IIIFClient: the caching JSON fetcher          *)
(* (fetch_json) with its retrying session and its lenient JSON decoder,    *)
(* the breadth-first collection traversal                                  *)
(* (get_manifests_and_collections_ids) and the image url extraction        *)
(* (get_manifest_images).                                                  *)
(*                                                                         *)
(* Python values are represented as follows.  None, where a string is      *)
(* expected, is the string NoneStr; a parsed JSON body is a record with a  *)
(* "py" tag ("None" for JSON null, "dict" for a JSON object) and, for an   *)
(* object, one field per key that is present.  A `type` value is a record  *)
(* tagged "str" or "list"; a type string is a sequence of characters, so   *)
(* that lower(), split(":") and the substring test are computed.           *)
(***************************************************************************)
EXTENDS Integers, Sequences, FiniteSets, TLC

VARIABLES
    skip_cache,             \* self.skip_cache
    no_cache,               \* self.no_cache
    cache,                  \* self.cache: "None" or "ManifestCache"
    store,                  \* the Document Store's entries, url -> document
    pc,                     \* position of the traversal call
    max_manifests,          \* the call's max_manifests argument
    collection_urls_queue,  \* the work queue
    manifest_ids,           \* the accumulated manifest ids
    collection_ids,         \* the processed collection urls
    returned,               \* the call's return value
    fetch_result,           \* what the latest direct fetch_json call gave its caller
    last,                   \* observation: the most recent fetch_json call
    nfetch,                 \* observation: fetch_json calls of this traversal or client
    fetched_ok,             \* observation: what the client's first successful direct
                            \*   fetch of each url returned
    extracted,              \* observation: urls fetched and extracted in this call
    failed,                 \* observation: urls whose fetch or extraction failed
    listed,                 \* observation: manifest ids listed by the fetched documents
    retries,                \* the Retry configuration mounted on the session
    request,                \* the session.get of one fetch: its physical requests
    text,                   \* response.text, a sequence of characters
    decoded,                \* what json.loads(text, cls=TrailingCommaJSONDecoder) gave
    collection_data,        \* `data` of line 206, a collection document
    child_items,            \* `items` of line 212
    manifest_data,          \* `data` of line 271, a manifest document
    image_args,             \* width, height, format, exact and use_max of the call
    image_ids,              \* `image_ids`, the base identifiers collected
    image_urls,             \* what get_manifest_images returned or raised
    remote                  \* the documents the servers hold, url -> document, or
                            \*   AnyRemote: any document at any request

vars == <<skip_cache, no_cache, cache, store, pc, max_manifests,
          collection_urls_queue, manifest_ids, collection_ids, returned,
          fetch_result, last, nfetch, fetched_ok, extracted, failed, listed,
          retries, request, text, decoded, collection_data, child_items,
          manifest_data, image_args, image_ids, image_urls, remote>>

client == <<skip_cache, no_cache, cache>>
direct == <<fetch_result, fetched_ok>>
transport == <<retries, request>>
\* what the traversal and the direct fetch_json calls of the model leave alone
decoder == <<text, decoded>>
extraction == <<collection_data, child_items>>
synthesizer == <<manifest_data, image_args, image_ids, image_urls>>
aside == <<transport, decoder, extraction, synthesizer, remote>>
traversal == <<pc, max_manifests, collection_urls_queue, manifest_ids,
               collection_ids, returned, extracted, failed, listed>>

(***************************************************************************)
(* Bounds of the exploration.                                              *)
(***************************************************************************)
MaxItems == 2           \* child items per collection document
MaxManifestsArg == 2    \* largest max_manifests argument

(***************************************************************************)
(* Python values.                                                          *)
(***************************************************************************)
NoneStr == "None"
PyNone == [py |-> "None"]

Range(s) == {s[i] : i \in DOMAIN s}

NoDuplicates(s) == \A i, j \in DOMAIN s : i # j => s[i] # s[j]

Min(a, b) == IF a <= b THEN a ELSE b

\* dict.get(key, default)
DictGet(d, key, default) == IF key \in DOMAIN d THEN d[key] ELSE default

\* mutant of FilterNone: the ids are not filtered
FilterNone_keep(ids) == ids

\* list(filter(None, ids)): None and the empty string are dropped
FilterNone(ids) == SelectSeq(ids, LAMBDA i : i # NoneStr /\ i # "")

(***************************************************************************)
(* Strings of the `type` field, as sequences of characters.                *)
(***************************************************************************)
Str(chars) == [t |-> "str", v |-> chars]
List(elems) == [t |-> "list", v |-> elems]

sManifest == <<"M", "a", "n", "i", "f", "e", "s", "t">>
sCollection == <<"C", "o", "l", "l", "e", "c", "t", "i", "o", "n">>
sRange == <<"R", "a", "n", "g", "e">>
sSc == <<"s", "c", ":">>
smanifest == <<"m", "a", "n", "i", "f", "e", "s", "t">>
scollection == <<"c", "o", "l", "l", "e", "c", "t", "i", "o", "n">>

\* str.lower(), on the letters the type strings use
LowerChar(c) ==
    CASE c = "M" -> "m"
      [] c = "C" -> "c"
      [] c = "R" -> "r"
      [] c = "S" -> "s"
      [] OTHER -> c

Lower(s) == [i \in DOMAIN s |-> LowerChar(s[i])]

\* s.split(":")[-1]: what follows the last colon
LastColon(s) ==
    IF \E i \in DOMAIN s : s[i] = ":"
    THEN CHOOSE i \in DOMAIN s : s[i] = ":" /\ \A j \in DOMAIN s : s[j] = ":" => j <= i
    ELSE 0

AfterLastColon(s) == SubSeq(s, LastColon(s) + 1, Len(s))

\* pat in s
Contains(s, pat) ==
    \E i \in 0..(Len(s) - Len(pat)) : SubSeq(s, i + 1, i + Len(pat)) = pat

(***************************************************************************)
(* Child items of a collection document.                                   *)
(***************************************************************************)
TNone == [t |-> "None", v |-> <<>>]

\* Python truthiness of a `type` value: None, "" and [] are false
TypeTruthy(x) == x.t # "None" /\ x.v # <<>>

\* IIIFClient._normalize_item_id
_normalize_item_id(item) ==
    LET first == DictGet(item, "id", NoneStr)
        id == IF first # NoneStr /\ first # ""
              THEN first
              ELSE DictGet(item, "@id", NoneStr)
    IN  IF id = NoneStr \/ id = "" THEN NoneStr ELSE id

\* IIIFClient._normalize_item_type
_normalize_item_type(item) ==
    LET first == DictGet(item, "type", TNone)
        type == IF TypeTruthy(first) THEN first ELSE DictGet(item, "@type", TNone)
        elem == IF type.t = "list" THEN Str(type.v[1]) ELSE type
    IN  IF TypeTruthy(elem) THEN AfterLastColon(Lower(elem.v)) ELSE <<>>

ManifestM1 == [id |-> "m1", type |-> Str(sManifest)]
ManifestM2 == ("@id" :> "m2") @@ ("@type" :> Str(sSc \o sManifest))
ManifestNoId == ("@type" :> Str(sSc \o sManifest))
CollectionA == [id |-> "a", type |-> Str(sCollection)]
CollectionB == ("@id" :> "b") @@ ("@type" :> Str(sSc \o sCollection))
CollectionRoot == [id |-> "root", type |-> List(<<sCollection>>)]
CollectionC == [id |-> "c", type |-> Str(sCollection)]
RangeR1 == [id |-> "r1", type |-> Str(sRange)]

\* items written with the keys of Presentation API 3
ModernItems == {ManifestM1, CollectionA, CollectionRoot, RangeR1}
\* items written with the keys of Presentation API 2
LegacyItems == {ManifestM2, CollectionB, ManifestNoId}
Items == ModernItems \cup LegacyItems

\* the collection urls the documents of Docs list, and with them the one that
\* only the documents of the fixed graphs list
DocUrls == {"root", "a", "b"}
CollectionUrls == DocUrls \cup {"c"}
ManifestUrls == {"m1", "m2"}

SeqsUpTo(S, n) == UNION {[1..k -> S] : k \in 0..n}

V3Doc(items) == [py |-> "dict", items |-> items]
V2Doc(collections, manifests) ==
    [py |-> "dict", collections |-> collections, manifests |-> manifests]

\* the bodies a collection url can answer with
Docs ==
    {PyNone}
    \cup {V3Doc(s) : s \in SeqsUpTo(Items \ {ManifestNoId}, MaxItems)}
    \cup {d \in {V2Doc(c, m) : c, m \in SeqsUpTo(LegacyItems, MaxItems)} :
            Len(d.collections) + Len(d.manifests) <= MaxItems}

\* the documents of the fixed collection graphs: each url has one of a few
RootDocs ==
    {V3Doc(<<CollectionA, CollectionB>>), V3Doc(<<CollectionB, CollectionA>>),
     V3Doc(<<CollectionA>>)}
ADocs == {V3Doc(<<ManifestM1>>), V3Doc(<<CollectionC>>), V3Doc(<<ManifestM1, CollectionRoot>>)}
BDocs == {V3Doc(<<CollectionC, CollectionA>>), V3Doc(<<CollectionC>>), V3Doc(<<ManifestM2>>)}
CDocs ==
    {V3Doc(<<ManifestM2>>), V3Doc(<<CollectionA>>), V3Doc(<<CollectionC, CollectionC>>), PyNone}
GraphDocs == RootDocs \cup ADocs \cup BDocs \cup CDocs

\* child items of every sort of type: a type that holds both words, one that
\* holds a word and more, a list whose first element is no such word, none
sCollectionManifest == sCollection \o sManifest
sManifests == sManifest \o <<"s">>
BothA == [id |-> "a", type |-> Str(sSc \o sCollectionManifest)]
ManifestsB == [id |-> "b", type |-> Str(sManifests)]
RangeFirstM1 == [id |-> "m1", type |-> List(<<sRange, sManifest>>)]
UntypedA == [id |-> "a"]
TypedItems ==
    {ManifestM1, ManifestM2, ManifestNoId, CollectionA, CollectionB, CollectionC,
     CollectionRoot, RangeR1, BothA, ManifestsB, RangeFirstM1, UntypedA}

\* the documents of one or two such items
TypedDocs == {V3Doc(s) : s \in SeqsUpTo(TypedItems, 2)}

\* get_manifests_and_collections_ids, line 212
GetItems(data) ==
    LET items == DictGet(data, "items", <<>>)
    IN  IF items # <<>>
        THEN items
        ELSE DictGet(data, "collections", <<>>) \o DictGet(data, "manifests", <<>>)

\* lines 214-216 (word = "manifest") and lines 227-229 (word = "collection")
ItemIdsOfType(items, word) ==
    LET typed == SelectSeq(items, LAMBDA item : Contains(_normalize_item_type(item), word))
    IN  FilterNone([i \in DOMAIN typed |-> _normalize_item_id(typed[i])])

\* the same, computed once per document
manifest_item_ids ==
    [d \in (Docs \cup GraphDocs \cup TypedDocs) \ {PyNone} |-> ItemIdsOfType(GetItems(d), smanifest)]
nested_collection_items_ids ==
    [d \in (Docs \cup GraphDocs \cup TypedDocs) \ {PyNone} |-> ItemIdsOfType(GetItems(d), scollection)]

(***************************************************************************)
(* The Document Store (loam_iiif.cache.ManifestCache) and the network.     *)
(***************************************************************************)
\* ManifestCache.get: the entry, or None when there is none
ManifestCache_get(entries, url) == entries[url]

\* ManifestCache.put: one entry per url, the later put overwrites
ManifestCache_put(entries, url, data) == [entries EXCEPT ![url] = data]

EmptyStore == [u \in CollectionUrls |-> PyNone]

\* what session.get, raise_for_status and json.loads end in
Exceptions == {"RequestException", "HTTPError", "ValueError"}

Ok(doc) == [status |-> "ok", body |-> doc]
Raises(exc) == [status |-> exc, body |-> PyNone]

ResponsesOf(docs) == {Ok(d) : d \in docs} \cup {Raises(e) : e \in Exceptions}

\* what the network can answer a collection url with
Responses == ResponsesOf(Docs)

\* no fixed graph: every url can answer every request with any document
AnyRemote == [u \in CollectionUrls |-> [py |-> "any"]]

\* what the network can answer url with: its document or an exception, when the
\* servers hold a fixed graph
ResponsesAt(url) ==
    IF remote = AnyRemote THEN Responses ELSE ResponsesOf({remote[url]})

\* mutant of CacheFor: the store is opened whatever no_cache says
CacheFor_always(no) == "ManifestCache"

\* IIIFClient.__init__, line 81
CacheFor(no) == IF no THEN "None" ELSE "ManifestCache"

\* `self.cache and not self.skip_cache`, line 149
ReadsCache == cache # "None" /\ ~skip_cache

\* mutant of WritesCache: the read-bypass flag suppresses the write too
WritesCache_unlessSkip == cache # "None" /\ ~skip_cache

\* `self.cache and not self.no_cache`, line 166
WritesCache == cache # "None" /\ ~no_cache

\* `cached_data is not None`, line 151
IsHit(cached_data) == cached_data # PyNone

\* IIIFClient.fetch_json(url), the network answering resp when it is asked
fetch_json(url, resp) ==
    LET cached_data == IF ReadsCache THEN ManifestCache_get(store, url) ELSE PyNone
    IN  IF ReadsCache /\ IsHit(cached_data)
        THEN [raised |-> "none", data |-> cached_data, store |-> store,
              network |-> FALSE, get |-> TRUE, put |-> FALSE]
        ELSE IF resp.status # "ok"
        THEN [raised |-> resp.status, data |-> PyNone, store |-> store,
              network |-> TRUE, get |-> ReadsCache, put |-> FALSE]
        ELSE [raised |-> "none", data |-> resp.body,
              store |-> IF WritesCache
                        THEN ManifestCache_put(store, url, resp.body)
                        ELSE store,
              network |-> TRUE, get |-> ReadsCache, put |-> WritesCache]

\* what a fetch_json call leaves to observe: whether it returned, whether it asked
\* the network, read the store, wrote the store, and the entry the store held
Observed(url, f) ==
    [url |-> url, ok |-> f.raised = "none", network |-> f.network,
     get |-> f.get, put |-> f.put, before |-> store[url]]

NoFetch ==
    [url |-> NoneStr, ok |-> FALSE, network |-> FALSE,
     get |-> FALSE, put |-> FALSE, before |-> PyNone]

(***************************************************************************)
(* IIIFClient.get_manifests_and_collections_ids(collection_url,            *)
(* max_manifests): one action per way through one turn of the loop.        *)
(***************************************************************************)
RootUrl == "root"

NoMax == [set |-> FALSE, n |-> 0]       \* max_manifests = None
MaxOf(n) == [set |-> TRUE, n |-> n]
MaxArgs == {NoMax} \cup {MaxOf(n) : n \in 0..MaxManifestsArg}

\* `max_manifests and len(manifest_ids) >= max_manifests`, line 219
MaxReached(ids) ==
    max_manifests.set /\ max_manifests.n # 0 /\ Cardinality(ids) >= max_manifests.n

\* list(manifest_ids): the set in some iteration order
Orderings(S) == {l \in [1..Cardinality(S) -> S] : Range(l) = S}

\* mutant of Truncate: the list is returned whole
Truncate_all(l) == l

\* `[:max_manifests]`, line 246
Truncate(l) ==
    IF max_manifests.set THEN SubSeq(l, 1, Min(max_manifests.n, Len(l))) ELSE l

NoReturn == [manifests |-> <<>>, collections |-> {}]

\* the manifest ids a document lists: the ids of its child items of kind manifest
Kind(item) ==
    LET type == _normalize_item_type(item)
    IN  IF type = smanifest THEN "manifest"
        ELSE IF type = scollection THEN "collection" ELSE "unknown"

ChildItems(data) ==
    IF "items" \in DOMAIN data
    THEN data.items
    ELSE DictGet(data, "collections", <<>>) \o DictGet(data, "manifests", <<>>)

ListedManifests(data) ==
    IF data.py # "dict" THEN {}
    ELSE {_normalize_item_id(i) : i \in {j \in Range(ChildItems(data)) : Kind(j) = "manifest"}}
         \ {NoneStr}

\* the same, computed once per document
listed_manifests == [d \in Docs \cup GraphDocs \cup TypedDocs |-> ListedManifests(d)]

\* the call: lines 193-196
Start ==
    /\ pc = "idle"
    /\ \E m \in MaxArgs : max_manifests' = m
    /\ pc' = "loop"
    /\ collection_urls_queue' = <<RootUrl>>
    /\ manifest_ids' = {}
    /\ collection_ids' = {}
    /\ nfetch' = 0
    /\ extracted' = {}
    /\ failed' = {}
    /\ listed' = {}
    /\ UNCHANGED <<aside, client, direct, store, returned, last>>

\* lines 198-199: the loop goes on and pops the front url
Popped(url) ==
    /\ pc = "loop"
    /\ collection_urls_queue # <<>>
    /\ url = Head(collection_urls_queue)

\* mutant of Processed: the popped url is never taken as processed
Processed_never(url) == FALSE

\* `url in collection_ids`, line 201
Processed(url) == url \in collection_ids

\* mutant of AlreadyProcessed: the url is left at the front of the queue
AlreadyProcessed_kept ==
    \E url \in CollectionUrls :
        /\ Popped(url)
        /\ Processed(url)
        /\ UNCHANGED vars

\* lines 201-203: the popped url is in collection_ids
AlreadyProcessed ==
    \E url \in CollectionUrls :
        /\ Popped(url)
        /\ Processed(url)
        /\ collection_urls_queue' = Tail(collection_urls_queue)
        /\ UNCHANGED <<aside, client, direct, store, pc, max_manifests, manifest_ids,
                       collection_ids, returned, last, nfetch, extracted, failed,
                       listed>>

\* line 206: fetch_json(url) is called, f is what it does
Fetched(url, f) ==
    /\ store' = f.store
    /\ last' = Observed(url, f)
    /\ nfetch' = nfetch + 1
    /\ UNCHANGED <<aside, client, direct, max_manifests, returned>>

\* mutant of SkipCollection: a fetch error ends the loop
SkipCollection_abort ==
    \E url \in CollectionUrls :
        /\ Popped(url)
        /\ ~Processed(url)
        /\ \E resp \in ResponsesAt(url) :
               LET f == fetch_json(url, resp)
               IN  /\ f.raised \in Exceptions
                   /\ Fetched(url, f)
                   /\ collection_urls_queue' = Tail(collection_urls_queue)
                   /\ failed' = failed \cup {url}
                   /\ pc' = "after_loop"
                   /\ UNCHANGED <<manifest_ids, collection_ids, extracted, listed>>

\* lines 205-209: fetch_json raises, the url is skipped
SkipCollection ==
    \E url \in CollectionUrls :
        /\ Popped(url)
        /\ ~Processed(url)
        /\ \E resp \in ResponsesAt(url) :
               LET f == fetch_json(url, resp)
               IN  /\ f.raised \in Exceptions
                   /\ Fetched(url, f)
                   /\ collection_urls_queue' = Tail(collection_urls_queue)
                   /\ failed' = failed \cup {url}
                   /\ UNCHANGED <<pc, manifest_ids, collection_ids, extracted, listed>>

\* mutant of ProcessingError: the url is put in collection_ids all the same
ProcessingError_visited ==
    \E url \in CollectionUrls :
        /\ Popped(url)
        /\ ~Processed(url)
        /\ \E resp \in ResponsesAt(url) :
               LET f == fetch_json(url, resp)
               IN  /\ f.raised = "none"
                   /\ f.data.py # "dict"
                   /\ Fetched(url, f)
                   /\ collection_urls_queue' = Tail(collection_urls_queue)
                   /\ failed' = failed \cup {url}
                   /\ collection_ids' = collection_ids \cup {url}
                   /\ UNCHANGED <<pc, manifest_ids, extracted, listed>>

\* lines 211-212 and 242-244: data is no dict, data.get raises, the url is skipped
ProcessingError ==
    \E url \in CollectionUrls :
        /\ Popped(url)
        /\ ~Processed(url)
        /\ \E resp \in ResponsesAt(url) :
               LET f == fetch_json(url, resp)
               IN  /\ f.raised = "none"
                   /\ f.data.py # "dict"
                   /\ Fetched(url, f)
                   /\ collection_urls_queue' = Tail(collection_urls_queue)
                   /\ failed' = failed \cup {url}
                   /\ UNCHANGED <<pc, manifest_ids, collection_ids, extracted, listed>>

\* lines 211-221: the manifest ids are added and max_manifests is reached
BreakAtMax ==
    \E url \in CollectionUrls :
        /\ Popped(url)
        /\ ~Processed(url)
        /\ \E resp \in ResponsesAt(url) :
               LET f == fetch_json(url, resp)
               IN  /\ f.raised = "none"
                   /\ f.data.py = "dict"
                   /\ MaxReached(manifest_ids \cup Range(manifest_item_ids[f.data]))
                   /\ Fetched(url, f)
                   /\ manifest_ids' = manifest_ids \cup Range(manifest_item_ids[f.data])
                   /\ pc' = "after_loop"
                   /\ collection_urls_queue' = Tail(collection_urls_queue)
                   /\ extracted' = extracted \cup {url}
                   /\ listed' = listed \cup listed_manifests[f.data]
                   /\ UNCHANGED <<collection_ids, failed>>

\* mutant of ProcessCollection: the nested collections go to the front of the queue
ProcessCollection_depthfirst ==
    \E url \in CollectionUrls :
        /\ Popped(url)
        /\ ~Processed(url)
        /\ \E resp \in ResponsesAt(url) :
               LET f == fetch_json(url, resp)
               IN  /\ f.raised = "none"
                   /\ f.data.py = "dict"
                   /\ ~MaxReached(manifest_ids \cup Range(manifest_item_ids[f.data]))
                   /\ Fetched(url, f)
                   /\ manifest_ids' = manifest_ids \cup Range(manifest_item_ids[f.data])
                   /\ collection_urls_queue' =
                          nested_collection_items_ids[f.data]
                              \o Tail(collection_urls_queue)
                   /\ collection_ids' = collection_ids \cup {url}
                   /\ extracted' = extracted \cup {url}
                   /\ listed' = listed \cup listed_manifests[f.data]
                   /\ UNCHANGED <<pc, failed>>

\* lines 211-240: the manifest ids are added, the nested collections queued
ProcessCollection ==
    \E url \in CollectionUrls :
        /\ Popped(url)
        /\ ~Processed(url)
        /\ \E resp \in ResponsesAt(url) :
               LET f == fetch_json(url, resp)
               IN  /\ f.raised = "none"
                   /\ f.data.py = "dict"
                   /\ ~MaxReached(manifest_ids \cup Range(manifest_item_ids[f.data]))
                   /\ Fetched(url, f)
                   /\ manifest_ids' = manifest_ids \cup Range(manifest_item_ids[f.data])
                   /\ collection_urls_queue' =
                          Tail(collection_urls_queue)
                              \o nested_collection_items_ids[f.data]
                   /\ collection_ids' = collection_ids \cup {url}
                   /\ extracted' = extracted \cup {url}
                   /\ listed' = listed \cup listed_manifests[f.data]
                   /\ UNCHANGED <<pc, failed>>

\* line 198: the queue is empty
QueueEmpty ==
    /\ pc = "loop"
    /\ collection_urls_queue = <<>>
    /\ pc' = "after_loop"
    /\ UNCHANGED <<aside, client, direct, store, max_manifests, collection_urls_queue,
                   manifest_ids, collection_ids, returned, last, nfetch, extracted,
                   failed, listed>>

\* lines 246-253
Return ==
    /\ pc = "after_loop"
    /\ \E l \in Orderings(manifest_ids) :
           returned' = [manifests |-> Truncate(l), collections |-> collection_ids]
    /\ pc' = "done"
    /\ UNCHANGED <<aside, client, direct, store, max_manifests, collection_urls_queue,
                   manifest_ids, collection_ids, last, nfetch, extracted, failed,
                   listed>>

(***************************************************************************)
(* The states in which the operations modelled further down are not used.  *)
(***************************************************************************)
DEFAULT_RETRY_TOTAL == 2
DEFAULT_STATUS_FORCELIST == {429, 500, 502, 503, 504}
DEFAULT_ALLOWED_METHODS == {"GET", "POST"}

\* Retry(total=retry_total, status_forcelist=status_forcelist or DEFAULT...,
\* allowed_methods=allowed_methods or DEFAULT..., raise_on_status=False), lines
\* 69-75; an argument that is None or an empty list is the empty set
Retry(retry_total, status_forcelist, allowed_methods) ==
    [total |-> retry_total,
     status_forcelist |->
         IF status_forcelist # {} THEN status_forcelist ELSE DEFAULT_STATUS_FORCELIST,
     get_allowed |->
         "GET" \in (IF allowed_methods # {} THEN allowed_methods
                    ELSE DEFAULT_ALLOWED_METHODS)]

NoAnswer == [kind |-> "none"]
NoRequest ==
    [phase |-> "idle", left |-> 0, sent |-> 0, hops |-> 0, physical |-> 0,
     prev |-> NoAnswer, outcome |-> "none"]

\* the default Retry configuration, no session.get under way
NoTransport ==
    /\ retries = Retry(DEFAULT_RETRY_TOTAL, {}, {})
    /\ request = NoRequest

NotDecoded == [raised |-> "undecoded"]

\* no body is being decoded
NoDecoder ==
    /\ text = <<>>
    /\ decoded = NotDecoded

NotExtracted == <<[py |-> "unextracted"]>>

\* no child item list is being extracted
NoExtraction ==
    /\ collection_data = PyNone
    /\ child_items = NotExtracted

sjpg == <<"j", "p", "g">>
DefaultArgs ==
    [width |-> 768, height |-> 2000, format |-> sjpg, exact |-> FALSE,
     use_max |-> FALSE]
NoImages == [raised |-> "uncalled", urls |-> <<>>]

\* get_manifest_images is not being called
NoSynthesizer ==
    /\ manifest_data = PyNone
    /\ image_args = DefaultArgs
    /\ image_ids = <<>>
    /\ image_urls = NoImages

Elsewhere ==
    /\ NoTransport
    /\ NoDecoder
    /\ NoExtraction
    /\ NoSynthesizer

\* the state after IIIFClient(...): lines 64-81
Constructed(skip, no) ==
    /\ skip_cache = skip
    /\ no_cache = no
    /\ cache = CacheFor(no)

\* no traversal is running
Idle ==
    /\ pc = "idle"
    /\ max_manifests = NoMax
    /\ collection_urls_queue = <<>>
    /\ manifest_ids = {}
    /\ collection_ids = {}
    /\ returned = NoReturn
    /\ extracted = {}
    /\ failed = {}
    /\ listed = {}

NotFetched == [py |-> "unfetched"]
NoResult == [raised |-> "none", data |-> NotFetched]

\* no fetch_json call was made yet
Fresh ==
    /\ fetch_result = NoResult
    /\ last = NoFetch
    /\ nfetch = 0
    /\ fetched_ok = [u \in CollectionUrls |-> NotFetched]

(***************************************************************************)
(* Spec: one traversal by a client whose store is disabled, every body of  *)
(* Docs being a possible answer of every url at every request.             *)
(***************************************************************************)
Init ==
    /\ Constructed(FALSE, TRUE)
    /\ store = EmptyStore
    /\ remote = AnyRemote
    /\ Idle
    /\ Fresh
    /\ Elsewhere

Next ==
    \/ Start
    \/ AlreadyProcessed
    \/ SkipCollection
    \/ ProcessingError
    \/ BreakAtMax
    \/ ProcessCollection
    \/ QueueEmpty
    \/ Return

Spec == Init /\ [][Next]_vars

(***************************************************************************)
(* SpecFetch: clients of every configuration, one after the other over the *)
(* same store, whose callers call fetch_json directly (as cli.main does    *)
(* for each manifest, line 147), the bodies changing between requests.     *)
(***************************************************************************)
MaxFetches == 3         \* direct fetch_json calls per client

\* the bodies a url answers a direct call with
FetchDocs == {PyNone, V3Doc(<<>>), V3Doc(<<ManifestM1>>)}

FetchResponses == ResponsesOf(FetchDocs)

\* IIIFClient(skip_cache=skip, no_cache=no): lines 64-81, the store is kept
Construct ==
    /\ pc = "idle"
    /\ \E skip, no \in BOOLEAN :
           /\ skip_cache' = skip
           /\ no_cache' = no
           /\ cache' = CacheFor(no)
    /\ fetch_result' = NoResult
    /\ last' = NoFetch
    /\ nfetch' = 0
    /\ fetched_ok' = [u \in CollectionUrls |-> NotFetched]
    /\ UNCHANGED <<aside, store, traversal>>

\* a caller's client.fetch_json(url)
FetchCall ==
    /\ pc = "idle"
    /\ nfetch < MaxFetches
    /\ \E url \in DocUrls, resp \in FetchResponses :
           LET f == fetch_json(url, resp)
           IN  /\ store' = f.store
               /\ fetch_result' = [raised |-> f.raised, data |-> f.data]
               /\ last' = Observed(url, f)
               /\ nfetch' = nfetch + 1
               /\ fetched_ok' =
                      IF f.raised = "none" /\ fetched_ok[url] = NotFetched
                      THEN [fetched_ok EXCEPT ![url] = f.data]
                      ELSE fetched_ok
    /\ UNCHANGED <<aside, client, traversal>>

InitFetch ==
    /\ \E skip, no \in BOOLEAN : Constructed(skip, no)
    /\ store = EmptyStore
    /\ remote = AnyRemote
    /\ Idle
    /\ Fresh
    /\ Elsewhere

NextFetch ==
    \/ Construct
    \/ FetchCall

SpecFetch == InitFetch /\ [][NextFetch]_vars

(***************************************************************************)
(* Properties of the traversal, checked under Spec.                        *)
(***************************************************************************)
\* this step is a turn of the loop that calls fetch_json
FetchInLoop == pc = "loop" /\ nfetch' = nfetch + 1

C2_FetchedAtMostOnce ==
    [][FetchInLoop => last'.url \notin (extracted \cup failed)]_vars

\* C2 as amended: in one traversal fetch_json is never called for a url that was
\* already fetched and extracted; a url whose fetch or extraction failed is
\* fetched again when another queued reference to it is popped.
C2_NoFetchAfterSuccess ==
    [][FetchInLoop => last'.url \notin extracted]_vars

C2_Witness ==
    /\ pc = "loop"
    /\ collection_urls_queue # <<>>
    /\ Head(collection_urls_queue) \in extracted
    /\ failed \cap extracted # {}

\* C3: after the fetch of a non-root collection failed the traversal goes on until
\* the queue is empty (or max_manifests is reached), and returns the manifests
\* listed by the collections it did fetch.
C3_TraversalContinues ==
    (pc = "done" /\ failed \ {RootUrl} # {})
        => /\ collection_urls_queue = <<>> \/ MaxReached(manifest_ids)
           /\ Range(returned.manifests) \subseteq listed
           /\ Len(returned.manifests) =
                  IF max_manifests.set
                  THEN Min(max_manifests.n, Cardinality(listed))
                  ELSE Cardinality(listed)

C3_Witness ==
    /\ pc = "done"
    /\ failed = {"a"}
    /\ extracted = {RootUrl, "b"}
    /\ Range(returned.manifests) = ManifestUrls

\* C4: a traversal with max_manifests = N >= 0 returns at most N manifest ids, each
\* one discovered during the traversal.
C4_AtMostMax ==
    (pc = "done" /\ max_manifests.set)
        => /\ Len(returned.manifests) <= max_manifests.n
           /\ NoDuplicates(returned.manifests)
           /\ Range(returned.manifests) \subseteq listed

C4_Witness ==
    /\ pc = "done"
    /\ max_manifests = MaxOf(1)
    /\ Cardinality(manifest_ids) = 2
    /\ Len(returned.manifests) = 1

\* C5: with max_manifests = N >= 0 set, once the manifest set has at least N ids the
\* traversal calls fetch_json no more.
C5_NoFetchOnceMaxReached ==
    [][(max_manifests.set /\ Cardinality(manifest_ids) >= max_manifests.n)
           => ~FetchInLoop]_vars

\* C6: when the fetch of the root url raises, the traversal does not return
\* normally.
C6_RootFetchErrorPropagates ==
    (nfetch > 0 /\ last.url = RootUrl /\ ~last.ok) => pc # "done"

\* C7: the returned collection ids hold every url whose document was fetched and
\* whose items were extracted during the call, with and without max_manifests.
C7_ProcessedCollectionsReturned ==
    pc = "done" => extracted \subseteq returned.collections

(***************************************************************************)
(* Properties of fetch_json and the store, checked under SpecFetch.        *)
(***************************************************************************)
\* this step is a direct fetch_json call
FetchStep == pc = "idle" /\ nfetch' = nfetch + 1

\* C8: with the store enabled and no read-bypass, once a fetch of a url succeeded
\* every later fetch of it returns the same document and asks the network nothing.
C8_LaterFetchServedFromStore ==
    [][(FetchStep /\ cache # "None" /\ ~skip_cache
            /\ fetched_ok[last'.url] # NotFetched)
           => /\ ~last'.network
              /\ fetch_result' = [raised |-> "none", data |-> fetched_ok[last'.url]]]_vars

\* The same property for documents other than JSON null: a stored document that
\* is not None is returned by every later fetch without a network request.
C8_ServedFromStoreUnlessNull ==
    [][(FetchStep /\ cache # "None" /\ ~skip_cache
            /\ fetched_ok[last'.url] \notin {NotFetched, PyNone})
           => /\ ~last'.network
              /\ fetch_result' = [raised |-> "none", data |-> fetched_ok[last'.url]]]_vars

\* C9: with the store enabled and read-bypass requested, every fetch asks the
\* network, and a successful one leaves the returned document as the url's entry,
\* the other entries as they were.
C9_BypassFetchesAndStores ==
    [][(FetchStep /\ cache # "None" /\ skip_cache)
           => /\ last'.network
              /\ ~last'.get
              /\ last'.ok => store' = [store EXCEPT ![last'.url] = fetch_result'.data]
              /\ ~last'.ok => store' = store]_vars

C9_Witness ==
    /\ cache # "None"
    /\ skip_cache
    /\ last.ok
    /\ last.network
    /\ last.before \notin {PyNone, fetch_result.data}
    /\ fetch_result.data # PyNone
    /\ store[last.url] = fetch_result.data

\* C10: with the store disabled no fetch reads or writes the store: each one asks
\* the network and leaves the entries as they were, whatever skip_cache is.
C10_DisabledStoreUntouched ==
    [][(FetchStep /\ no_cache)
           => /\ last'.network
              /\ ~last'.get
              /\ ~last'.put
              /\ store' = store]_vars

C10_Witness ==
    /\ no_cache
    /\ skip_cache
    /\ last.ok
    /\ last.network
    /\ store[last.url] # PyNone
    /\ fetch_result.data \notin {PyNone, store[last.url]}

(***************************************************************************)
(* SpecRetry: the physical requests of one session.get (line 156) under    *)
(* the Retry configuration mounted at lines 69-78, and what lines 161-162  *)
(* make of the final response.  The retry loop is urllib3's                *)
(* (HTTPConnectionPool.urlopen with Retry.is_retry, Retry.increment and    *)
(* Retry.is_exhausted), redirects are followed by requests, each hop with  *)
(* the mounted Retry afresh.                                               *)
(***************************************************************************)
MaxRetryTotal == 2      \* largest retry_total argument
MaxRedirects == 1       \* redirect hops followed in one session.get

\* urllib3's Retry.RETRY_AFTER_STATUS_CODES
RETRY_AFTER_STATUS_CODES == {413, 429, 503}

Statuses == {200, 304, 404, 413, 429, 500, 503}
Bodies == {"json", "garbage"}

ConnectError == [kind |-> "connect_error"]
ReadError == [kind |-> "read_error"]
Response(status, retry_after, location, body) ==
    [kind |-> "response", status |-> status, retry_after |-> retry_after,
     location |-> location, body |-> body]

\* what one physical request can end in
Answers ==
    {ConnectError, ReadError}
    \cup {Response(st, ra, FALSE, b) : st \in Statuses, ra \in BOOLEAN, b \in Bodies}
    \cup {Response(302, FALSE, TRUE, "garbage")}

\* the configurations of lines 40-45 and 69-75
RetryConfigs ==
    {Retry(t, f, m) : t \in 0..MaxRetryTotal, f \in {{}, {404}}, m \in {{}, {"POST"}}}

\* Retry.is_retry with `left` retries remaining
is_retry(left, a) ==
    /\ retries.get_allowed
    /\ \/ a.status \in retries.status_forcelist
       \/ left # 0 /\ a.retry_after /\ a.status \in RETRY_AFTER_STATUS_CODES

\* Retry.increment followed by Retry.is_exhausted
is_exhausted(left) == left - 1 < 0

\* the answer is followed by a further request of the same hop
Retried(left, a) ==
    /\ ~is_exhausted(left)
    /\ CASE a.kind = "connect_error" -> TRUE
         [] a.kind = "read_error" -> retries.get_allowed
         [] OTHER -> is_retry(left, a)

\* requests follows the response to its Location
Redirected(a) == a.kind = "response" /\ a.location

\* mutant of raise_for_status: only a server error raises
raise_for_status_5xx(status) == 500 <= status /\ status < 600

\* response.raise_for_status(), line 161
raise_for_status(status) == 400 <= status /\ status < 600

Sent(a) == [request EXCEPT !.sent = @ + 1, !.physical = @ + 1, !.prev = a]

Ended(a, outcome) == [Sent(a) EXCEPT !.phase = "ended", !.outcome = outcome]

RetryFrame ==
    UNCHANGED <<remote, client, store, direct, last, nfetch, traversal, retries, decoder,
                extraction, synthesizer>>

\* line 156: session.get is called
SessionGet ==
    /\ request.phase \in {"idle", "ended"}
    /\ request' = [NoRequest EXCEPT !.phase = "sending", !.left = retries.total]
    /\ RetryFrame

\* a request fails or is answered with a status to retry on: sleep, send again
Resend ==
    /\ request.phase = "sending"
    /\ \E a \in Answers :
           /\ Retried(request.left, a)
           /\ request' = [Sent(a) EXCEPT !.left = @ - 1]
    /\ RetryFrame

\* a response with a Location: the next hop is requested
Redirect ==
    /\ request.phase = "sending"
    /\ request.hops < MaxRedirects
    /\ \E a \in Answers :
           /\ Redirected(a)
           /\ ~Retried(request.left, a)
           /\ request' = [Sent(a) EXCEPT !.sent = 0, !.left = retries.total,
                                         !.hops = @ + 1]
    /\ RetryFrame

\* a request fails and is not sent again: lines 173-175
TransportError ==
    /\ request.phase = "sending"
    /\ \E a \in Answers :
           /\ a.kind \in {"connect_error", "read_error"}
           /\ ~Retried(request.left, a)
           /\ request' = Ended(a, "RequestException")
    /\ RetryFrame

\* the final response is a client or server error: lines 161 and 170-172
StatusError ==
    /\ request.phase = "sending"
    /\ \E a \in Answers :
           /\ a.kind = "response"
           /\ ~Retried(request.left, a)
           /\ ~Redirected(a)
           /\ raise_for_status(a.status)
           /\ request' = Ended(a, "HTTPError")
    /\ RetryFrame

\* the final response is no error and its body parses: lines 162-169
Parsed ==
    /\ request.phase = "sending"
    /\ \E a \in Answers :
           /\ a.kind = "response"
           /\ ~Retried(request.left, a)
           /\ ~Redirected(a)
           /\ ~raise_for_status(a.status)
           /\ a.body = "json"
           /\ request' = Ended(a, "Document")
    /\ RetryFrame

\* the final response is no error and its body does not parse: lines 162, 176-178
Malformed ==
    /\ request.phase = "sending"
    /\ \E a \in Answers :
           /\ a.kind = "response"
           /\ ~Retried(request.left, a)
           /\ ~Redirected(a)
           /\ ~raise_for_status(a.status)
           /\ a.body = "garbage"
           /\ request' = Ended(a, "ValueError")
    /\ RetryFrame

InitRetry ==
    /\ Constructed(FALSE, TRUE)
    /\ store = EmptyStore
    /\ remote = AnyRemote
    /\ Idle
    /\ Fresh
    /\ retries \in RetryConfigs
    /\ request = NoRequest
    /\ NoDecoder
    /\ NoExtraction
    /\ NoSynthesizer

NextRetry ==
    \/ SessionGet
    \/ Resend
    \/ Redirect
    \/ TransportError
    \/ StatusError
    \/ Parsed
    \/ Malformed

SpecRetry == InitRetry /\ [][NextRetry]_vars

\* this step is a physical request
PhysicalRequest == request'.physical = request.physical + 1

\* this step is a physical request answered with a response
Answered == PhysicalRequest /\ request'.prev.kind = "response"

\* this step is a further request of a fetch to the url of the one before
FurtherRequest == PhysicalRequest /\ request.sent > 0

\* C11 as stated: a fetch issues at most 1 + retry_total physical requests, a
\* further one only after a response with status 429, 500, 502, 503 or 504; a
\* response with another non-2xx status ends the fetch at once with a status
\* error, and so does the last response when the retries are exhausted.
C11_RetryOnEligibleStatusOnly ==
    /\ [](request.physical <= 1 + retries.total)
    /\ [][FurtherRequest =>
             /\ request.prev.kind = "response"
             /\ request.prev.status \in DEFAULT_STATUS_FORCELIST]_vars
    /\ [][(Answered /\ request'.prev.status \notin 200..299
                    /\ request'.prev.status \notin DEFAULT_STATUS_FORCELIST)
             => request'.outcome = "HTTPError"]_vars
    /\ [][(Answered /\ request'.sent = 1 + retries.total
                    /\ request'.prev.status \in DEFAULT_STATUS_FORCELIST)
             => request'.outcome = "HTTPError"]_vars

\* C11, amended: a fetch issues at most 1 + retry_total physical requests to
\* one url (a followed redirect starts a new count); a further request to it is
\* issued only after a connection-level failure, a response whose status is in
\* the client's status_forcelist, or a 413, 429 or 503 response that carries
\* Retry-After; a 4xx or 5xx response that does not qualify ends the fetch at
\* once with a status error, a 4xx or 5xx response that exhausts the retries
\* ends it with a status error, and no fetch whose last response is 4xx or 5xx
\* returns a Document.
C11_RetryPolicy ==
    /\ [](request.sent <= 1 + retries.total)
    /\ [][FurtherRequest =>
             \/ request.prev.kind \in {"connect_error", "read_error"}
             \/ /\ request.prev.kind = "response"
                /\ \/ request.prev.status \in retries.status_forcelist
                   \/ /\ request.prev.retry_after
                      /\ request.prev.status \in {413, 429, 503}]_vars
    /\ [][(Answered /\ request'.prev.status \in 400..599
                    /\ request'.prev.status \notin retries.status_forcelist
                    /\ ~(/\ request'.prev.retry_after
                         /\ request'.prev.status \in {413, 429, 503}))
             => request'.outcome = "HTTPError"]_vars
    /\ [][(Answered /\ request'.prev.status \in 400..599
                    /\ request'.sent = 1 + retries.total)
             => request'.outcome = "HTTPError"]_vars
    /\ [](request.outcome = "Document" => request.prev.status \notin 400..599)

\* a fetch ended with a status error after 1 + retry_total requests, each
\* answered with a status of the force list
C11_Witness ==
    /\ retries.total >= 1
    /\ request.outcome = "HTTPError"
    /\ request.sent = 1 + retries.total
    /\ request.prev.status \in DEFAULT_STATUS_FORCELIST

(***************************************************************************)
(* SpecDecode: json.loads(response.text, cls=TrailingCommaJSONDecoder),    *)
(* line 162, on every text of up to MaxBody symbols.  A text is a sequence *)
(* of characters; a decoded value is a record tagged "arr", "obj", "str"   *)
(* or "num".                                                               *)
(***************************************************************************)
MaxBody == 5            \* symbols per response text

\* the symbols the texts are made of: arrays of numbers and strings, and
\* objects with the key "k"
ArraySymbols == {<<"[">>, <<"]">>, <<",">>, <<" ">>, <<"1">>, <<"\"">>}
ObjectSymbols == {<<"{">>, <<"}">>, <<",">>, <<" ">>, <<"1">>, <<"\"", "k", "\"", ":">>}

RECURSIVE Flatten(_)
Flatten(ss) == IF ss = <<>> THEN <<>> ELSE Head(ss) \o Flatten(Tail(ss))

Texts(n) ==
    {Flatten(ss) : ss \in SeqsUpTo(ArraySymbols, n)}
    \cup {Flatten(ss) : ss \in SeqsUpTo(ObjectSymbols, n)}

Closers == {"]", "}"}

\* JSON whitespace, and what \s matches, among the characters of the texts
IsJsonWs(c) == c = " "
IsReWs(c) == c = " "

RECURSIVE SkipJsonWs(_, _)
SkipJsonWs(s, i) ==
    IF i <= Len(s) /\ IsJsonWs(s[i]) THEN SkipJsonWs(s, i + 1) ELSE i

RECURSIVE SkipReWs(_, _)
SkipReWs(s, i) ==
    IF i <= Len(s) /\ IsReWs(s[i]) THEN SkipReWs(s, i + 1) ELSE i

\* the pattern ,(\s*[\]\}]) of line 26 tried at position i: the position of
\* the last character of the match, 0 when there is no match
MatchAt(s, i) ==
    IF s[i] # "," THEN 0
    ELSE LET j == SkipReWs(s, i + 1)
         IN  IF j <= Len(s) /\ s[j] \in Closers THEN j ELSE 0

\* mutant of fix_commas: the whole match is kept
fix_commas_keep(s, i, e) == SubSeq(s, i, e)

\* fix_commas, lines 21-23: group 1 of the match from i to e
fix_commas(s, i, e) == SubSeq(s, i + 1, e)

\* re.sub, line 26: the matches are found from left to right, none overlapping
\* the one before, and each is replaced
RECURSIVE re_sub(_, _)
re_sub(s, i) ==
    IF i > Len(s) THEN <<>>
    ELSE LET e == MatchAt(s, i)
         IN  IF e # 0
             THEN fix_commas(s, i, e) \o re_sub(s, e + 1)
             ELSE <<s[i]>> \o re_sub(s, i + 1)

\* the JSON decoder (json.JSONDecoder.raw_decode)
ParseFail == [ok |-> FALSE]
ParseOk(val, next) == [ok |-> TRUE, val |-> val, next |-> next]

JsonArr(v) == [t |-> "arr", v |-> v]
JsonObj(v) == [t |-> "obj", v |-> v]
JsonStr(v) == [t |-> "str", v |-> v]
JsonNum(v) == [t |-> "num", v |-> v]
EmptyObj == [k \in {} |-> ParseFail]

\* the position of the quote that closes the string opened before i, or 0
RECURSIVE ClosingQuote(_, _)
ClosingQuote(s, i) ==
    IF i > Len(s) THEN 0
    ELSE IF s[i] = "\"" THEN i ELSE ClosingQuote(s, i + 1)

ParseString(s, i) ==
    LET j == ClosingQuote(s, i + 1)
    IN  IF j = 0 THEN ParseFail ELSE ParseOk(JsonStr(SubSeq(s, i + 1, j - 1)), j + 1)

RECURSIVE DigitsEnd(_, _)
DigitsEnd(s, i) == IF i <= Len(s) /\ s[i] = "1" THEN DigitsEnd(s, i + 1) ELSE i

ParseNumber(s, i) ==
    LET j == DigitsEnd(s, i) IN ParseOk(JsonNum(SubSeq(s, i, j - 1)), j)

RECURSIVE ParseValue(_, _)
RECURSIVE ParseElements(_, _, _)
RECURSIVE ParseMembers(_, _, _)

\* a value that starts at position i
ParseValue(s, i) ==
    IF i > Len(s) THEN ParseFail
    ELSE CASE s[i] = "[" ->
                  LET j == SkipJsonWs(s, i + 1)
                  IN  IF j <= Len(s) /\ s[j] = "]"
                      THEN ParseOk(JsonArr(<<>>), j + 1)
                      ELSE ParseElements(s, j, <<>>)
           [] s[i] = "{" ->
                  LET j == SkipJsonWs(s, i + 1)
                  IN  IF j <= Len(s) /\ s[j] = "}"
                      THEN ParseOk(JsonObj(EmptyObj), j + 1)
                      ELSE ParseMembers(s, j, EmptyObj)
           [] s[i] = "\"" -> ParseString(s, i)
           [] s[i] = "1" -> ParseNumber(s, i)
           [] OTHER -> ParseFail

\* the elements of an array from position i on, acc being those before
ParseElements(s, i, acc) ==
    LET r == ParseValue(s, i)
    IN  IF ~r.ok THEN ParseFail
        ELSE LET j == SkipJsonWs(s, r.next)
             IN  IF j > Len(s) THEN ParseFail
                 ELSE IF s[j] = "]" THEN ParseOk(JsonArr(Append(acc, r.val)), j + 1)
                 ELSE IF s[j] = ","
                      THEN ParseElements(s, SkipJsonWs(s, j + 1), Append(acc, r.val))
                      ELSE ParseFail

\* the members of an object from position i on, a later key overriding
ParseMembers(s, i, acc) ==
    IF i > Len(s) \/ s[i] # "\"" THEN ParseFail
    ELSE LET key == ParseString(s, i)
         IN  IF ~key.ok THEN ParseFail
             ELSE LET c == SkipJsonWs(s, key.next)
                  IN  IF c > Len(s) \/ s[c] # ":" THEN ParseFail
                      ELSE LET r == ParseValue(s, SkipJsonWs(s, c + 1))
                           IN  IF ~r.ok THEN ParseFail
                               ELSE LET j == SkipJsonWs(s, r.next)
                                        obj == (key.val.v :> r.val) @@ acc
                                    IN  IF j > Len(s) THEN ParseFail
                                        ELSE IF s[j] = "}"
                                             THEN ParseOk(JsonObj(obj), j + 1)
                                        ELSE IF s[j] = ","
                                             THEN ParseMembers(s, SkipJsonWs(s, j + 1), obj)
                                             ELSE ParseFail

\* json.JSONDecoder.decode: one value, whitespace around it, nothing else
JSONDecoder_decode(s) ==
    LET r == ParseValue(s, SkipJsonWs(s, 1))
    IN  IF r.ok /\ SkipJsonWs(s, r.next) = Len(s) + 1
        THEN [raised |-> "none", data |-> r.val]
        ELSE [raised |-> "ValueError"]

\* TrailingCommaJSONDecoder.decode, lines 19-27
TrailingCommaJSONDecoder_decode(s) == JSONDecoder_decode(re_sub(s, 1))

\* line 162
Loads ==
    /\ decoded = NotDecoded
    /\ decoded' = TrailingCommaJSONDecoder_decode(text)
    /\ UNCHANGED <<remote, client, store, direct, last, nfetch, traversal, transport, text,
                   extraction, synthesizer>>

InitDecode ==
    /\ Constructed(FALSE, TRUE)
    /\ store = EmptyStore
    /\ remote = AnyRemote
    /\ Idle
    /\ Fresh
    /\ NoTransport
    /\ NoExtraction
    /\ NoSynthesizer
    /\ text \in Texts(MaxBody)
    /\ decoded = NotDecoded

NextDecode ==
    \/ Loads

SpecDecode == InitDecode /\ [][NextDecode]_vars

\* the commas of s that are followed, whitespace ignored, by a closing delimiter
TrailingCommas(s) ==
    {i \in DOMAIN s :
        /\ s[i] = ","
        /\ \E j \in (i + 1)..Len(s) :
               /\ s[j] \in Closers
               /\ \A k \in (i + 1)..(j - 1) : s[k] = " "}

\* s with the characters at the positions of D deleted
RECURSIVE Deleted(_, _)
Deleted(s, D) ==
    IF s = <<>> THEN <<>>
    ELSE Deleted(SubSeq(s, 1, Len(s) - 1), D)
             \o (IF Len(s) \in D THEN <<>> ELSE <<s[Len(s)]>>)

\* the number of arrays and objects open at position i of s
NestingDepth(s, i) ==
    Cardinality({j \in 1..(i - 1) : s[j] \in {"[", "{"}})
        - Cardinality({j \in 1..(i - 1) : s[j] \in Closers})

\* C12: lenient parsing gives what strict parsing gives for the text with every
\* comma that is followed, whitespace ignored, by a closing delimiter deleted,
\* at every depth: the same document, or the malformed-JSON error when that
\* text is still invalid.
C12_LenientParsing ==
    decoded # NotDecoded =>
        decoded = JSONDecoder_decode(Deleted(text, TrailingCommas(text)))

\* a text that strict parsing rejects was parsed, a comma having been removed
\* inside an array or object that is itself nested
C12_Witness ==
    /\ decoded # NotDecoded
    /\ decoded.raised = "none"
    /\ JSONDecoder_decode(text).raised = "ValueError"
    /\ \E i \in TrailingCommas(text) : NestingDepth(text, i) >= 2

(***************************************************************************)
(* SpecItems: line 212 on every collection document that has any of the    *)
(* keys items, collections and manifests, each a list of up to MaxItems    *)
(* items.                                                                  *)
(***************************************************************************)
MixedItems == {ManifestM1, CollectionA, ManifestM2}

Key(present, key, value) == IF present THEN key :> value ELSE EmptyObj

MixedDoc(hi, i, hc, c, hm, m) ==
    [py |-> "dict"] @@ Key(hi, "items", i) @@ Key(hc, "collections", c)
        @@ Key(hm, "manifests", m)

Lists(present, n) == IF present THEN SeqsUpTo(MixedItems, n) ELSE {<<>>}

\* the documents whose lists hold at most n items together
MixedDocs(n) ==
    UNION {UNION {UNION {{MixedDoc(hi, i, hc, c, hm, m) :
                             m \in Lists(hm, n - Len(i) - Len(c))} :
                         c \in Lists(hc, n - Len(i))} :
                  i \in Lists(hi, n)} :
           hi \in BOOLEAN, hc \in BOOLEAN, hm \in BOOLEAN}

\* line 212
ExtractItems ==
    /\ child_items = NotExtracted
    /\ child_items' = GetItems(collection_data)
    /\ UNCHANGED <<remote, client, store, direct, last, nfetch, traversal, transport, decoder,
                   collection_data, synthesizer>>

InitItems ==
    /\ Constructed(FALSE, TRUE)
    /\ store = EmptyStore
    /\ remote = AnyRemote
    /\ Idle
    /\ Fresh
    /\ NoTransport
    /\ NoDecoder
    /\ NoSynthesizer
    /\ collection_data \in MixedDocs(MaxItems)
    /\ child_items = NotExtracted

NextItems ==
    \/ ExtractItems

SpecItems == InitItems /\ [][NextItems]_vars

\* C13: the child item list is the `items` field whenever that field is present,
\* also when it is an empty list, and `collections` followed by `manifests` only
\* when `items` is absent.
C13_ItemsWheneverPresent ==
    child_items # NotExtracted => child_items = ChildItems(collection_data)

\* The same for the documents whose `items` field is absent or not empty.
C13_ItemsUnlessEmpty ==
    (/\ child_items # NotExtracted
     /\ "items" \in DOMAIN collection_data => collection_data.items # <<>>)
        => child_items = ChildItems(collection_data)

(***************************************************************************)
(* get_manifest_images, lines 255-380.  A manifest is a Python value: a    *)
(* dict is a record tagged py = "dict" with one field per key, a list a    *)
(* record tagged "list", a string a record tagged "str" that holds its     *)
(* characters, None is PyNone.                                             *)
(***************************************************************************)
D0 == [py |-> "dict"]
PyList(l) == [py |-> "list", l |-> l]
PyStr(chars) == [py |-> "str", s |-> chars]
PyInt(n) == [py |-> "int", n |-> n]

\* Python truthiness
Truthy(x) ==
    CASE x.py = "None" -> FALSE
      [] x.py = "str" -> x.s # <<>>
      [] x.py = "list" -> x.l # <<>>
      [] x.py = "int" -> x.n # 0
      [] OTHER -> DOMAIN x # {"py"}

\* a or b
PyOr(a, b) == IF Truthy(a) THEN a ELSE b

sV3Context ==
    <<"h", "t", "t", "p", ":", "/", "/", "i", "i", "i", "f", ".", "i", "o",
      "/", "a", "p", "i", "/", "p", "r", "e", "s", "e", "n", "t", "a", "t",
      "i", "o", "n", "/", "3", "/", "c", "o", "n", "t", "e", "x", "t", ".",
      "j", "s", "o", "n">>
sV2Context ==
    <<"h", "t", "t", "p", ":", "/", "/", "i", "i", "i", "f", ".", "i", "o",
      "/", "a", "p", "i", "/", "p", "r", "e", "s", "e", "n", "t", "a", "t",
      "i", "o", "n", "/", "2", "/", "c", "o", "n", "t", "e", "x", "t", ".",
      "j", "s", "o", "n">>
sFull == <<"/", "f", "u", "l", "l", "/">>
sInfoJson == <<"/", "i", "n", "f", "o", ".", "j", "s", "o", "n">>
sZeroDefault == <<"/", "0", "/", "d", "e", "f", "a", "u", "l", "t", ".">>
smax == <<"m", "a", "x">>
sfull == <<"f", "u", "l", "l">>
DigitChars == {"0", "1", "2", "3", "4", "5", "6", "7", "8", "9"}

\* pat is in s at position i
OccursAt(s, pat, i) ==
    /\ i + Len(pat) - 1 <= Len(s)
    /\ SubSeq(s, i, i + Len(pat) - 1) = pat

\* mutant of BeforeFull: nothing is cut off
BeforeFull_keep(s) == s

\* s.split('/full/')[0], lines 310 and 341-342: what precedes the first '/full/'
BeforeFull(s) ==
    LET at == {i \in 1..Len(s) : OccursAt(s, sFull, i)}
    IN  IF at = {} THEN s
        ELSE SubSeq(s, 1, (CHOOSE i \in at : \A j \in at : i <= j) - 1)

\* s ends with suffix
EndsWith(s, suffix) ==
    /\ Len(s) >= Len(suffix)
    /\ SubSeq(s, Len(s) - Len(suffix) + 1, Len(s)) = suffix

\* re.sub(r'/info\.json$', '', s), line 362
StripInfoJson(s) ==
    IF EndsWith(s, sInfoJson) THEN SubSeq(s, 1, Len(s) - Len(sInfoJson)) ELSE s

\* \d+
IsDigits(s) == s # <<>> /\ \A i \in DOMAIN s : s[i] \in DigitChars

\* \d+,\d+
IsWidthHeight(s) ==
    \E i \in DOMAIN s :
        /\ s[i] = ","
        /\ IsDigits(SubSeq(s, 1, i - 1))
        /\ IsDigits(SubSeq(s, i + 1, Len(s)))

\* max|full|!\d+,\d+|\d+,\d+
IsSizeToken(s) ==
    \/ s = smax
    \/ s = sfull
    \/ IsWidthHeight(s)
    \/ s # <<>> /\ s[1] = "!" /\ IsWidthHeight(Tail(s))

\* s matches /full/<size token>/0/default\.<extension>$
EndsInFullRequest(s, extension) ==
    LET tail == sZeroDefault \o extension
        cut == SubSeq(s, 1, Len(s) - Len(tail))
    IN  /\ EndsWith(s, tail)
        /\ \E i \in DOMAIN cut :
               /\ OccursAt(cut, sFull, i)
               /\ IsSizeToken(SubSeq(cut, i + Len(sFull), Len(cut)))

\* re.search(r'/full/(?:max|full|!\d+,\d+|\d+,\d+)/0/default\.jpg$', s), line 364
IsFullRequest(s) == EndsInFullRequest(s, sjpg)

DigitOf(n) ==
    CASE n = 0 -> "0" [] n = 1 -> "1" [] n = 2 -> "2" [] n = 3 -> "3" [] n = 4 -> "4"
      [] n = 5 -> "5" [] n = 6 -> "6" [] n = 7 -> "7" [] n = 8 -> "8" [] n = 9 -> "9"

\* f"{n}" for a natural number
RECURSIVE Decimal(_)
Decimal(n) == IF n < 10 THEN <<DigitOf(n)>> ELSE Decimal(n \div 10) \o <<DigitOf(n % 10)>>

\* mutant of size_param: the dimensions are always exact
size_param_exact(is_v2, args) ==
    IF args.use_max
    THEN IF is_v2 THEN sfull ELSE smax
    ELSE Decimal(args.width) \o <<",">> \o Decimal(args.height)

\* size_param, lines 365-369
size_param(is_v2, args) ==
    IF args.use_max
    THEN IF is_v2 THEN sfull ELSE smax
    ELSE (IF ~args.exact THEN <<"!">> ELSE <<>>)
             \o Decimal(args.width) \o <<",">> \o Decimal(args.height)

\* lines 358-374 for one image id: the url appended, nothing when the id is no
\* string (TypeError, logged, the loop goes on)
format_image(image_id, is_v2, args) ==
    IF image_id.py # "str" THEN <<>>
    ELSE LET id == StripInfoJson(image_id.s)
         IN  IF IsFullRequest(id) THEN <<id>>
             ELSE <<id \o sFull \o size_param(is_v2, args) \o sZeroDefault
                        \o args.format>>

\* lines 356-376
RECURSIVE format_images(_, _, _)
format_images(ids, is_v2, args) ==
    IF ids = <<>> THEN <<>>
    ELSE format_image(Head(ids), is_v2, args) \o format_images(Tail(ids), is_v2, args)

\* what a part of a walk ends in: the ids it appends, or the exception it raises
Ids(ids) == [raised |-> "none", ids |-> ids]
RaisedIn(exc) == [raised |-> exc, ids |-> <<>>]

\* the parts of a loop one after the other: the first exception, or all the ids
RECURSIVE Collect(_)
Collect(outs) ==
    IF outs = <<>> THEN Ids(<<>>)
    ELSE IF Head(outs).raised # "none" THEN Head(outs)
    ELSE LET rest == Collect(Tail(outs))
         IN  IF rest.raised # "none" THEN rest ELSE Ids(Head(outs).ids \o rest.ids)

\* `for x in v`: a list gives its elements; the characters of a string and the
\* keys of a dict are no dicts and are passed over; None and numbers raise
Iterable(v) == v.py \in {"list", "str", "dict"}
Elements(v) == IF v.py = "list" THEN v.l ELSE <<>>

\* `'/full/' in v`, lines 309 and 340: raises unless v is a string
StripFull(v) ==
    IF v.py # "str" THEN RaisedIn("TypeError")
    ELSE Ids(<<PyStr(BeforeFull(v.s))>>)

\* lines 297-324, one annotation
AnnotationIds(annotation) ==
    IF annotation.py # "dict" THEN Ids(<<>>)
    ELSE LET body == DictGet(annotation, "body", D0)
         IN  IF body.py # "dict" THEN Ids(<<>>)
             ELSE LET direct_id == IF "id" \in DOMAIN body THEN StripFull(body["id"])
                                   ELSE Ids(<<PyNone>>)
                  IN  IF direct_id.raised # "none" THEN direct_id
                      ELSE IF ~Truthy(direct_id.ids[1]) /\ "service" \in DOMAIN body
                      THEN LET given == body["service"]
                               service == IF given.py = "list" /\ given.l # <<>>
                                          THEN given.l[1] ELSE given
                           IN  IF service.py = "dict"
                               THEN Ids(<<PyOr(DictGet(service, "@id", PyNone),
                                               DictGet(service, "id", PyNone))>>)
                               ELSE Ids(<<>>)
                      ELSE IF Truthy(direct_id.ids[1]) THEN direct_id
                      ELSE Ids(<<>>)

\* `for x in d.get("items", [])` with `part` applied to each x
ItemsLoop(d, part(_)) ==
    LET items == DictGet(d, "items", PyList(<<>>))
    IN  IF ~Iterable(items) THEN RaisedIn("TypeError")
        ELSE Collect([i \in DOMAIN Elements(items) |-> part(Elements(items)[i])])

\* lines 290-324, one annotation page
AnnotationPageIds(anno_page) ==
    IF anno_page.py # "dict" THEN Ids(<<>>) ELSE ItemsLoop(anno_page, AnnotationIds)

\* lines 283-324, one canvas
CanvasIds(canvas) ==
    IF canvas.py # "dict" THEN Ids(<<>>) ELSE ItemsLoop(canvas, AnnotationPageIds)

\* lines 282-324, the v3 walk
V3Walk(data) == ItemsLoop(data, CanvasIds)

\* lines 335-347, one image of a v2 canvas
ImageIds(image) ==
    IF image.py # "dict" THEN RaisedIn("AttributeError")
    ELSE LET resource == DictGet(image, "resource", D0)
         IN  IF ~Iterable(resource) THEN RaisedIn("TypeError")
             ELSE IF resource.py = "dict" /\ "@id" \in DOMAIN resource
             THEN StripFull(resource["@id"])
             ELSE IF "resource" \notin DOMAIN image THEN RaisedIn("KeyError")
             ELSE IF resource.py # "dict" THEN RaisedIn("AttributeError")
             ELSE LET service == DictGet(resource, "service", D0)
                  IN  IF ~Iterable(service) THEN RaisedIn("TypeError")
                      ELSE IF service.py = "dict" /\ "@id" \in DOMAIN service
                      THEN Ids(<<service["@id"]>>)
                      ELSE Ids(<<>>)

\* lines 333-347, one canvas of the first sequence
CanvasImageIds(canvas) ==
    IF ~Iterable(canvas) THEN RaisedIn("TypeError")
    ELSE IF canvas.py = "dict" /\ "images" \in DOMAIN canvas
    THEN IF ~Iterable(canvas.images) THEN RaisedIn("TypeError")
         ELSE Collect([i \in DOMAIN Elements(canvas.images) |->
                           ImageIds(Elements(canvas.images)[i])])
    ELSE Ids(<<>>)

\* lines 332-347, the v2 walk
V2Walk(data) ==
    IF "sequences" \notin DOMAIN data THEN Ids(<<>>)
    ELSE LET sequences == data.sequences
         IN  IF sequences.py # "list" THEN RaisedIn("TypeError")
             ELSE IF sequences.l = <<>> THEN RaisedIn("IndexError")
             ELSE LET first == sequences.l[1]
                  IN  IF first.py # "dict" THEN RaisedIn("TypeError")
                      ELSE IF "canvases" \notin DOMAIN first THEN RaisedIn("KeyError")
                      ELSE IF ~Iterable(first.canvases) THEN RaisedIn("TypeError")
                      ELSE Collect([i \in DOMAIN Elements(first.canvases) |->
                                        CanvasImageIds(Elements(first.canvases)[i])])

\* mutant of is_v3: a context that is a list naming the version is taken too
is_v3_listed(context) ==
    \/ context = PyStr(sV3Context)
    \/ context.py = "list" /\ PyStr(sV3Context) \in Range(context.l)

\* lines 276 and 277
is_v3(context) == context = PyStr(sV3Context)
is_v2(context) == context = PyStr(sV2Context)

Returns(ids, urls) == [raised |-> "none", ids |-> ids, urls |-> urls]
Reraises(exc, ids) == [raised |-> exc, ids |-> ids, urls |-> <<>>]

\* get_manifest_images once fetch_json has returned data, lines 272-380
get_manifest_images(data, args) ==
    IF data.py # "dict" THEN Reraises("AttributeError", <<>>)
    ELSE LET context == DictGet(data, "@context", PyNone)
             walk == IF is_v3(context) THEN V3Walk(data) ELSE V2Walk(data)
         IN  IF is_v3(context) /\ walk.raised # "none" THEN Returns(<<>>, <<>>)
             ELSE IF ~is_v3(context) /\ ~is_v2(context) THEN Returns(<<>>, <<>>)
             ELSE IF walk.raised # "none" THEN Reraises(walk.raised, <<>>)
             ELSE Returns(walk.ids, format_images(walk.ids, is_v2(context), args))

(***************************************************************************)
(* SpecImages: get_manifest_images on v3, v2 and unrecognized manifests of *)
(* up to MaxImages annotations or images, well-formed and not, for every   *)
(* combination of the arguments.                                           *)
(***************************************************************************)
MaxImages == 2          \* annotations of a v3 manifest, images of a v2 manifest

sBase1 ==
    <<"h", "t", "t", "p", "s", ":", "/", "/", "e", "x", ".", "o", "r", "g",
      "/", "i", "m", "g", "/", "1">>
sBase2 == <<"s", "v", "c", "/", "2">>
sFull800x600jpg ==
    <<"/", "f", "u", "l", "l", "/", "8", "0", "0", ",", "6", "0", "0", "/",
      "0", "/", "d", "e", "f", "a", "u", "l", "t", ".", "j", "p", "g">>
sFull800x600png ==
    <<"/", "f", "u", "l", "l", "/", "8", "0", "0", ",", "6", "0", "0", "/",
      "0", "/", "d", "e", "f", "a", "u", "l", "t", ".", "p", "n", "g">>
sFullMaxJpg ==
    <<"/", "f", "u", "l", "l", "/", "m", "a", "x", "/", "0", "/", "d", "e",
      "f", "a", "u", "l", "t", ".", "j", "p", "g">>
sFullMaxPng ==
    <<"/", "f", "u", "l", "l", "/", "m", "a", "x", "/", "0", "/", "d", "e",
      "f", "a", "u", "l", "t", ".", "p", "n", "g">>
spng == <<"p", "n", "g">>
sOther == <<"o", "t", "h", "e", "r">>

Dict1(k, v) == (k :> v) @@ D0
Dict2(k1, v1, k2, v2) == (k1 :> v1) @@ (k2 :> v2) @@ D0

\* annotation bodies of a v3 manifest
BodyId(chars) == Dict1("id", PyStr(chars))
BodyService(service) == Dict1("service", service)
V3Bodies ==
    {BodyId(sBase1),
     BodyId(sBase1 \o sFull800x600jpg),
     BodyId(sBase1 \o sInfoJson),
     Dict1("id", PyNone),
     Dict1("id", PyInt(1)),
     BodyService(Dict1("@id", PyStr(sBase2))),
     BodyService(PyList(<<Dict1("id", PyStr(sBase2 \o sInfoJson))>>)),
     BodyService(D0),
     BodyService(Dict1("@id", PyStr(sBase2 \o sFullMaxPng))),
     BodyService(Dict1("@id", PyStr(sBase2 \o sFullMaxJpg))),
     D0,
     Dict2("id", PyStr(<<>>), "service", Dict1("@id", PyStr(sBase2))),
     PyStr(sBase1)}

Annotations == {Dict1("body", b) : b \in V3Bodies} \cup {D0, PyNone}

ItemsOf(l) == Dict1("items", PyList(l))

\* a v3 manifest with the annotations on one page of one canvas
V3OneCanvas(annotations) ==
    Dict2("@context", PyStr(sV3Context),
          "items", PyList(<<ItemsOf(<<ItemsOf(annotations)>>)>>))

\* a v3 manifest with one canvas for each annotation
V3CanvasEach(annotations) ==
    Dict2("@context", PyStr(sV3Context),
          "items", PyList([i \in DOMAIN annotations |->
                               ItemsOf(<<ItemsOf(<<annotations[i]>>)>>)]))

V3Manifests(n) ==
    {V3OneCanvas(l) : l \in SeqsUpTo(Annotations, n)}
    \cup {V3CanvasEach(l) : l \in SeqsUpTo(Annotations, n)}
    \cup {Dict1("@context", PyStr(sV3Context)),
          Dict2("@context", PyStr(sV3Context), "items", PyNone),
          Dict2("@context", PyStr(sV3Context), "items",
                PyList(<<PyNone, ItemsOf(<<ItemsOf(<<Dict1("body", BodyId(sBase1))>>)>>)>>))}

\* images of a v2 canvas
ResourceId(chars) == Dict1("resource", Dict1("@id", PyStr(chars)))
ResourceService(chars) ==
    Dict1("resource", Dict1("service", Dict1("@id", PyStr(chars))))
V2Images ==
    {ResourceId(sBase1),
     ResourceId(sBase1 \o sFull800x600jpg),
     ResourceId(sBase1 \o sFull800x600png),
     ResourceId(sBase2 \o sFullMaxJpg),
     ResourceService(sBase2),
     ResourceService(sBase2 \o sInfoJson),
     Dict1("resource", D0),
     Dict1("resource", Dict1("@id", PyNone)),
     D0}

V2Of(sequences) == Dict2("@context", PyStr(sV2Context), "sequences", sequences)
CanvasesOf(l) == Dict1("canvases", PyList(l))
ImagesOf(l) == Dict1("images", PyList(l))

\* a v2 manifest with the images on one canvas of one sequence
V2OneCanvas(images) == V2Of(PyList(<<CanvasesOf(<<ImagesOf(images)>>)>>))

V2Manifests(n) ==
    {V2OneCanvas(l) : l \in SeqsUpTo(V2Images, n)}
    \cup {Dict1("@context", PyStr(sV2Context)),
          V2Of(PyList(<<>>)),
          V2Of(PyList(<<D0>>)),
          V2Of(PyList(<<CanvasesOf(<<D0, ImagesOf(<<ResourceId(sBase1)>>)>>)>>)),
          V2Of(PyList(<<CanvasesOf(<<>>),
                        CanvasesOf(<<ImagesOf(<<ResourceId(sBase1)>>)>>)>>))}

\* the manifest with its @context removed
WithoutContext(manifest) == [k \in DOMAIN manifest \ {"@context"} |-> manifest[k]]

OtherContexts == {PyNone, PyStr(sOther), PyList(<<PyStr(sV3Context)>>)}

\* manifests whose @context is absent or is none of the two version strings
UnrecognizedManifests ==
    LET few == {V3OneCanvas(l) : l \in SeqsUpTo(Annotations, 1)}
               \cup {V2OneCanvas(l) : l \in SeqsUpTo(V2Images, 1)}
               \cup {V2Of(PyList(<<>>)),
                     Dict2("@context", PyStr(sV3Context), "items", PyNone)}
    IN  {WithoutContext(m) : m \in few}
        \cup {[m EXCEPT !["@context"] = c] : m \in few, c \in OtherContexts}

\* the documents fetch_json can return for a manifest url
Manifests(n) ==
    V3Manifests(n) \cup V2Manifests(n) \cup UnrecognizedManifests \cup {PyNone}

ImageArgs ==
    {[width |-> w, height |-> 2 * w, format |-> f, exact |-> e, use_max |-> u] :
        w \in {100, 768}, f \in {sjpg, spng}, e \in BOOLEAN, u \in BOOLEAN}

Extract(r) ==
    /\ image_ids' = r.ids
    /\ image_urls' = [raised |-> r.raised, urls |-> r.urls]
    /\ UNCHANGED <<remote, client, store, direct, last, nfetch, traversal, transport, decoder,
                   extraction, manifest_data, image_args>>

Context == DictGet(manifest_data, "@context", PyNone)

\* lines 348-350: the context is none of the two
UnsupportedContext ==
    /\ image_urls = NoImages
    /\ manifest_data.py = "dict"
    /\ ~is_v3(Context) /\ ~is_v2(Context)
    /\ Extract(get_manifest_images(manifest_data, image_args))

\* lines 326-328: the v3 walk raises
V3ParseError ==
    /\ image_urls = NoImages
    /\ manifest_data.py = "dict"
    /\ is_v3(Context)
    /\ V3Walk(manifest_data).raised # "none"
    /\ Extract(get_manifest_images(manifest_data, image_args))

\* lines 352-354: the walk collected nothing
NoImageIds ==
    /\ image_urls = NoImages
    /\ manifest_data.py = "dict"
    /\ is_v3(Context) \/ is_v2(Context)
    /\ LET r == get_manifest_images(manifest_data, image_args)
       IN  /\ r.raised = "none"
           /\ r.ids = <<>>
           /\ is_v3(Context) => V3Walk(manifest_data).raised = "none"
           /\ Extract(r)

\* lines 356-376: the collected ids are formatted
ReturnUrls ==
    /\ image_urls = NoImages
    /\ LET r == get_manifest_images(manifest_data, image_args)
       IN  /\ r.raised = "none"
           /\ r.ids # <<>>
           /\ Extract(r)

\* lines 378-380: an exception reaches the caller
ExtractionError ==
    /\ image_urls = NoImages
    /\ LET r == get_manifest_images(manifest_data, image_args)
       IN  /\ r.raised # "none"
           /\ Extract(r)

InitImages ==
    /\ Constructed(FALSE, TRUE)
    /\ store = EmptyStore
    /\ remote = AnyRemote
    /\ Idle
    /\ Fresh
    /\ NoTransport
    /\ NoDecoder
    /\ NoExtraction
    /\ manifest_data \in Manifests(MaxImages)
    /\ image_args \in ImageArgs
    /\ image_ids = <<>>
    /\ image_urls = NoImages

NextImages ==
    \/ UnsupportedContext
    \/ V3ParseError
    \/ NoImageIds
    \/ ReturnUrls
    \/ ExtractionError

SpecImages == InitImages /\ [][NextImages]_vars

(***************************************************************************)
(* Properties of get_manifest_images, checked under SpecImages.            *)
(***************************************************************************)
\* get_manifest_images was called and has returned or raised
Called == image_urls # NoImages

\* the collected identifiers that are strings, the others being passed over
StringIds == SelectSeq(image_ids, LAMBDA v : v.py = "str")

\* s ends in /full/<size token>/0/default.<ext>, whatever the extension
IsImageRequest(s) == EndsInFullRequest(s, sjpg) \/ EndsInFullRequest(s, spng)

\* the size of the claim: max (v3) or full (v2) with useMax, else width,height
\* when exact and !width,height when not
ClaimedSize ==
    IF image_args.use_max
    THEN IF Context = PyStr(sV2Context) THEN sfull ELSE smax
    ELSE IF image_args.exact
         THEN Decimal(image_args.width) \o <<",">> \o Decimal(image_args.height)
         ELSE <<"!">> \o Decimal(image_args.width) \o <<",">>
                  \o Decimal(image_args.height)

ExampleManifest == V3OneCanvas(<<Dict1("body", BodyId(sBase1))>>)
ExampleArgs ==
    [width |-> 100, height |-> 200, format |-> sjpg, exact |-> FALSE,
     use_max |-> FALSE]
sExampleUrl ==
    <<"h", "t", "t", "p", "s", ":", "/", "/", "e", "x", ".", "o", "r", "g",
      "/", "i", "m", "g", "/", "1", "/", "f", "u", "l", "l", "/", "!", "1",
      "0", "0", ",", "2", "0", "0", "/", "0", "/", "d", "e", "f", "a", "u",
      "l", "t", ".", "j", "p", "g">>

\* C14: the url made of a base identifier that is not already a full image
\* request is the identifier, a trailing /info.json removed, followed by
\* /full/<size>/0/default.<format>, <size> being max (v3) or full (v2) with
\* useMax, width,height with exact and !width,height otherwise; the v3 body id
\* https://ex.org/img/1 with 100, 200, not exact, no useMax gives
\* https://ex.org/img/1/full/!100,200/0/default.jpg.
C14_SynthesizedUrl ==
    /\ (Called /\ image_urls.raised = "none") =>
           /\ Len(image_urls.urls) = Len(StringIds)
           /\ \A i \in DOMAIN StringIds :
                  LET id == StripInfoJson(StringIds[i].s)
                  IN  ~IsImageRequest(id) =>
                          image_urls.urls[i] =
                              id \o sFull \o ClaimedSize \o sZeroDefault
                                 \o image_args.format
    /\ (Called /\ manifest_data = ExampleManifest /\ image_args = ExampleArgs) =>
           image_urls = [raised |-> "none", urls |-> <<sExampleUrl>>]

\* the example of the claim was extracted
C14_Witness ==
    /\ Called
    /\ manifest_data = ExampleManifest
    /\ image_args = ExampleArgs
    /\ image_urls.urls # <<>>

\* v2 manifests each of whose images has a resource @id that ends in a full
\* image request
FullRequestImages ==
    {ResourceId(sBase1 \o sFull800x600jpg), ResourceId(sBase1 \o sFull800x600png),
     ResourceId(sBase2 \o sFullMaxJpg)}

IsFullRequestManifest(data) ==
    \E l \in SeqsUpTo(FullRequestImages, MaxImages) : l # <<>> /\ data = V2OneCanvas(l)

\* the number of places of s where a /full/<size>/0/default. begins
SizeSuffixes(s) ==
    Cardinality({i \in DOMAIN s :
        /\ OccursAt(s, sFull, i)
        /\ \E j \in (i + Len(sFull))..Len(s) :
               /\ IsSizeToken(SubSeq(s, i + Len(sFull), j))
               /\ OccursAt(s, sZeroDefault, j + 1)})

\* C15: for a v2 manifest whose image resource @id already ends in a full image
\* request, the url returned carries exactly one /full/<size>/0/default.<ext>
\* suffix, and extracting again from the returned url with the same arguments
\* returns the same url.
C15_OneSizeSuffix ==
    (Called /\ IsFullRequestManifest(manifest_data)) =>
        /\ image_urls.raised = "none"
        /\ Len(image_urls.urls) = Len(image_ids)
        /\ \A i \in DOMAIN image_urls.urls :
               LET url == image_urls.urls[i]
                   again == get_manifest_images(V2OneCanvas(<<ResourceId(url)>>),
                                                image_args)
               IN  /\ IsImageRequest(url)
                   /\ SizeSuffixes(url) = 1
                   /\ again.raised = "none"
                   /\ again.urls = <<url>>

\* a v2 manifest with an @id ending in /full/800,600/0/default.jpg was extracted
C15_Witness ==
    /\ Called
    /\ manifest_data = V2OneCanvas(<<ResourceId(sBase1 \o sFull800x600jpg)>>)
    /\ Len(image_urls.urls) = 1

\* the claim's test of the context: absent, or none of the two version strings
Unrecognized(data) ==
    \/ "@context" \notin DOMAIN data
    \/ data["@context"] \notin {PyStr(sV3Context), PyStr(sV2Context)}

C17_NeverRaises ==
    Called => image_urls.raised = "none"

\* The same for the v3 and the unrecognized manifests that are JSON objects.
C17_NeverRaisesUnlessV2 ==
    (Called /\ manifest_data.py = "dict" /\ ~is_v2(Context)) =>
        image_urls.raised = "none"

(***************************************************************************)
(* Further properties of the traversal, checked under Spec.                *)
(***************************************************************************)
\* C18: in every state of a traversal each url of collection_ids is a url
\* whose document was fetched and whose items were extracted with success
\* earlier in the call, and a url all of whose fetches failed is never in the
\* collection ids returned.
C18_VisitedOnlyAfterSuccess ==
    /\ collection_ids \subseteq extracted
    /\ returned.collections \subseteq extracted
    /\ \A url \in failed \ extracted : url \notin returned.collections

\* the call returned collection ids while a url failed at each of its fetches
C18_Witness ==
    /\ pc = "done"
    /\ failed \ extracted # {}
    /\ returned.collections # {}

(***************************************************************************)
(* SpecOrder: one traversal, by a client whose store is disabled, of a     *)
(* fixed collection graph: a url answers each request with its document or *)
(* with an exception.                                                      *)
(***************************************************************************)
Graphs ==
    {g \in [CollectionUrls -> GraphDocs] :
        /\ g["root"] \in RootDocs
        /\ g["a"] \in ADocs
        /\ g["b"] \in BDocs
        /\ g["c"] \in CDocs}

InitOrder ==
    /\ Constructed(FALSE, TRUE)
    /\ store = EmptyStore
    /\ remote \in Graphs
    /\ Idle
    /\ Fresh
    /\ Elsewhere

SpecOrder == InitOrder /\ [][Next]_vars

\* the collections and the manifests the document of url lists
ChildCollections(url) ==
    IF remote[url].py = "dict"
    THEN Range(nested_collection_items_ids[remote[url]]) ELSE {}
ChildManifests(url) ==
    IF remote[url].py = "dict" THEN Range(manifest_item_ids[remote[url]]) ELSE {}

\* the urls within n listings of the root
RECURSIVE Within(_)
Within(n) ==
    IF n = 0 THEN {RootUrl}
    ELSE Within(n - 1) \cup UNION {ChildCollections(u) : u \in Within(n - 1)}

Unreachable == Cardinality(CollectionUrls)

\* the breadth-first depth of a collection, and the smallest depth of the
\* collections that list a manifest
Depth(url) ==
    IF url \in Within(Unreachable)
    THEN CHOOSE n \in 0..Unreachable :
             url \in Within(n) /\ \A k \in 0..(n - 1) : url \notin Within(k)
    ELSE Unreachable + 1

ListedDepth(id) ==
    LET at == {Depth(u) : u \in {v \in CollectionUrls : id \in ChildManifests(v)}}
    IN  IF at = {} THEN Unreachable + 1
        ELSE CHOOSE n \in at : \A k \in at : n <= k

\* the fetch of a step is of the url at the front of the queue, and the queue
\* is only appended to
FifoStep ==
    nfetch' = nfetch + 1 =>
        /\ last'.url = Head(collection_urls_queue)
        /\ \E k \in 0..Len(collection_urls_queue') :
               SubSeq(collection_urls_queue', 1, k) = Tail(collection_urls_queue)

\* no collection is processed after a deeper one, no manifest enters
\* manifest_ids after one listed only deeper
DepthStep ==
    /\ \A v \in collection_ids' \ collection_ids :
           \A u \in collection_ids : Depth(u) <= Depth(v)
    /\ \A m \in manifest_ids' \ manifest_ids :
           \A n \in manifest_ids : ListedDepth(n) <= ListedDepth(m)

SpecLive == SpecOrder /\ WF_vars(Next)

\* the urls a call can put in its queue: the root, and at most MaxItems per
\* collection processed
MostFetches == 1 + MaxItems * Cardinality(CollectionUrls)

\* C19: whatever the documents list (cycles, self-references, collections of
\* many parents) and whichever fetches fail, the traversal terminates: the
\* loop is left, its queue empty or max_manifests reached, after finitely many
\* fetches.
C19_Terminates ==
    /\ (pc = "loop") ~> (pc = "after_loop")
    /\ [](nfetch <= MostFetches)

\* the loop was left with an empty queue after a collection that lists itself
\* and one that two others list were processed, and a fetch failed
C19_Witness ==
    /\ pc = "after_loop"
    /\ collection_urls_queue = <<>>
    /\ failed # {}
    /\ \E url \in collection_ids : url \in ChildCollections(url)
    /\ \E url \in collection_ids :
           Cardinality({u \in collection_ids : url \in ChildCollections(u)}) >= 2

(***************************************************************************)
(* SpecKinds: one traversal, by a client whose store is disabled, of a     *)
(* root collection that lists one or two items of every sort of type; the  *)
(* collections a and b are empty and c is a null document.                 *)
(***************************************************************************)
TypedGraphs ==
    {[u \in CollectionUrls |->
         IF u = RootUrl THEN d ELSE IF u = "c" THEN PyNone ELSE V3Doc(<<>>)] :
     d \in TypedDocs}

InitKinds ==
    /\ Constructed(FALSE, TRUE)
    /\ store = EmptyStore
    /\ remote \in TypedGraphs
    /\ Idle
    /\ Fresh
    /\ Elsewhere

SpecKinds == InitKinds /\ [][Next]_vars

\* the ids of the items of the root document that are of a kind
IdsOfKind(kind) ==
    {_normalize_item_id(i) :
         i \in {j \in Range(ChildItems(remote[RootUrl])) : Kind(j) = kind}}
        \ {NoneStr}

\* the step that processes the root document
RootProcessed ==
    /\ remote # AnyRemote
    /\ nfetch = 0
    /\ collection_ids' = {RootUrl}

\* what the claim has the step do
KindsApart ==
    /\ manifest_ids' = IdsOfKind("manifest")
    /\ Range(collection_urls_queue') = IdsOfKind("collection")

\* C21: every child item has one kind among manifest, collection and unknown
\* (type or @type, first element of a list, lower-cased, prefix stripped):
\* the id of a manifest item goes into manifest_ids only, the id of a
\* collection item onto the queue only, an unknown item and an item without
\* id into neither.
C21_OneKindEach == [][RootProcessed => KindsApart]_vars

\* the items whose type holds one of the two words only as the whole of it
PlainlyTyped(item) ==
    LET type == _normalize_item_type(item)
    IN  \A word \in {smanifest, scollection} : Contains(type, word) => type = word

\* The same for the root documents whose items have a type that is one of the
\* two words or holds none of them.
C21_OneKindEachPlainType ==
    [][(RootProcessed /\ \A i \in Range(ChildItems(remote[RootUrl])) : PlainlyTyped(i))
           => KindsApart]_vars

(***************************************************************************)
(* Further properties of get_manifest_images, checked under SpecImages.    *)
(***************************************************************************)
\* every level of the v3 manifest is a list of objects
IsListOfDicts(v) == v.py = "list" /\ \A i \in DOMAIN v.l : v.l[i].py = "dict"
HasItems(d) == "items" \in DOMAIN d /\ IsListOfDicts(d.items)

\* the elements of the items of the objects of l, in their order
RECURSIVE ItemsWithin(_)
ItemsWithin(l) ==
    IF l = <<>> THEN <<>> ELSE Head(l).items.l \o ItemsWithin(Tail(l))

\* a v3 manifest of canvases of annotation pages of annotations
IsV3Structure(data) ==
    /\ data.py = "dict"
    /\ is_v3(DictGet(data, "@context", PyNone))
    /\ HasItems(data)
    /\ \A i \in DOMAIN data.items.l : HasItems(data.items.l[i])
    /\ \A i \in DOMAIN ItemsWithin(data.items.l) :
           LET page == ItemsWithin(data.items.l)[i]
           IN  "items" \in DOMAIN page /\ page.items.py = "list"

\* its annotations in the order of the walk
AnnotationsOf(data) == ItemsWithin(ItemsWithin(data.items.l))

\* the urls of the images of the annotations l, each taken alone
RECURSIVE UrlsOfEach(_)
UrlsOfEach(l) ==
    IF l = <<>> THEN <<>>
    ELSE get_manifest_images(V3OneCanvas(<<Head(l)>>), image_args).urls
             \o UrlsOfEach(Tail(l))

\* the body of the annotation has an id that is no string
HasNonStringId(annotation) ==
    /\ annotation.py = "dict"
    /\ "body" \in DOMAIN annotation
    /\ annotation.body.py = "dict"
    /\ "id" \in DOMAIN annotation.body
    /\ annotation.body["id"].py # "str"

\* C22: in the v3 walk an annotation with a malformed body (an id that is null
\* or no string, a service without id and @id) has only its own image left
\* out: the urls of the other annotations are returned, in the order of the
\* walk.
C22_OnlyMalformedOmitted ==
    (Called /\ IsV3Structure(manifest_data)) =>
        image_urls = [raised |-> "none",
                      urls |-> UrlsOfEach(AnnotationsOf(manifest_data))]

\* The same for the manifests none of whose bodies has an id that is no string.
C22_OmittedUnlessNonStringId ==
    (/\ Called
     /\ IsV3Structure(manifest_data)
     /\ \A i \in DOMAIN AnnotationsOf(manifest_data) :
            ~HasNonStringId(AnnotationsOf(manifest_data)[i])) =>
        image_urls = [raised |-> "none",
                      urls |-> UrlsOfEach(AnnotationsOf(manifest_data))]

\* C23: an identifier collected that already ends in a full image request
\* /full/<size>/0/default.<ext> (size max, full, w,h or !w,h; any extension,
\* png as well as jpg) gets no suffix: it is returned as it is.
C23_FullRequestUnchanged ==
    (Called /\ image_urls.raised = "none" /\ Len(image_urls.urls) = Len(StringIds)) =>
        \A i \in DOMAIN StringIds :
            IsImageRequest(StringIds[i].s) => image_urls.urls[i] = StringIds[i].s

\* The same for the identifiers whose extension is jpg.
C23_JpgRequestUnchanged ==
    (Called /\ image_urls.raised = "none" /\ Len(image_urls.urls) = Len(StringIds)) =>
        \A i \in DOMAIN StringIds :
            EndsInFullRequest(StringIds[i].s, sjpg) =>
                image_urls.urls[i] = StringIds[i].s

(***************************************************************************)
(* A further property of the lenient decoder, checked under SpecDecode.    *)
(***************************************************************************)
\* position i of s lies inside a string (the texts have no escaped quote)
InString(s, i) == Cardinality({j \in 1..(i - 1) : s[j] = "\""}) % 2 = 1

\* C24: the repair of trailing commas does not change what a valid JSON text
\* means: lenient parsing of a valid text, a text with a string that holds a
\* comma followed by ] or } included, returns what strict parsing returns.
C24_ValidJsonUnchanged ==
    (decoded # NotDecoded /\ JSONDecoder_decode(text).raised = "none") =>
        decoded = JSONDecoder_decode(text)

\* The same for the valid texts none of whose strings holds a comma followed,
\* whitespace ignored, by ] or }.
C24_UnchangedUnlessCommaInString ==
    (/\ decoded # NotDecoded
     /\ JSONDecoder_decode(text).raised = "none"
     /\ \A i \in TrailingCommas(text) : ~InString(text, i)) =>
        decoded = JSONDecoder_decode(text)

====
